---------------------------- MODULE Spec2Model ----------------------------
(***************************************************************************)
(* Model of app.py: the Streamlit report builder (session content list,    *)
(* "Add to Report", delete and "Generate PDF Report" handlers) and         *)
(* PDFGenerator (fetch_logo, generate, the page footers).                  *)
(*                                                                         *)
(* Lengths are integers in units of 1/1270 pt, so that the A4 page size    *)
(* (210mm x 297mm at 72/25.4 pt per mm) and every tenth of an inch are     *)
(* exact.  Image sizes are exact rationals <<n, d>> in points.             *)
(***************************************************************************)
EXTENDS Integers, Sequences, FiniteSets, TLC

(***************************************************************************)
(* Bounds of the model.                                                    *)
(***************************************************************************)
MaxAdds == 2
WidthSpan == 12
MaxH == 6

(***************************************************************************)
(* Units and program constants.                                            *)
(***************************************************************************)
pt == 1270
inch == 72 * pt
A4 == <<756000, 1069200>>
Margin == 72 * pt
FramePadding == 6 * pt
maxPasses == 10

(***************************************************************************)
(* Exact rational arithmetic for the float computations of the resize      *)
(* logic.  A rational is <<n, d>> with d > 0, in lowest terms.             *)
(***************************************************************************)
RECURSIVE GCD(_, _)
GCD(a, b) == IF b = 0 THEN a ELSE GCD(b, a % b)

Abs(x) == IF x < 0 THEN -x ELSE x

Rat(n, d) ==
    LET g == GCD(Abs(n), Abs(d))
        s == IF d < 0 THEN -1 ELSE 1
    IN  IF g = 0 THEN <<0, 1>> ELSE <<s * (n \div g), s * (d \div g)>>

RatInt(n) == <<n, 1>>

RatMul(x, y) ==
    LET a == Rat(x[1], y[2])
        b == Rat(y[1], x[2])
    IN  Rat(a[1] * b[1], a[2] * b[2])

RatDiv(x, y) == RatMul(x, IF y[1] < 0 THEN <<-y[2], -y[1]>> ELSE <<y[2], y[1]>>)

RatGT(x, y) == x[1] * y[2] > y[1] * x[2]

\* A rational number of points as a (floored) whole number of layout units.
ToUnits(r) == (r[1] \div r[2]) * pt + ((r[1] % r[2]) * pt) \div r[2]

\* A4[0] - 144, in points: 75600/127 - 144.
avail_width == Rat(A4[1] - 2 * Margin, pt)

(***************************************************************************)
(* Resize logic of generate: the rendered <<drawWidth, drawHeight>> of an  *)
(* image whose native size is img_width x img_height.                      *)
(***************************************************************************)
\* Variant: the width is clamped but the height is left unscaled.
ResizeWidthOnly(img_width, img_height) ==
    IF RatGT(RatInt(img_width), avail_width)
    THEN <<avail_width, RatInt(img_height)>>
    ELSE <<RatInt(img_width), RatInt(img_height)>>

Resize(img_width, img_height) ==
    IF RatGT(RatInt(img_width), avail_width)
    THEN LET ratio == RatDiv(avail_width, RatInt(img_width))
         IN  <<avail_width, RatMul(RatInt(img_height), ratio)>>
    ELSE <<RatInt(img_width), RatInt(img_height)>>

(***************************************************************************)
(* str(page_num): the decimal text of a natural number.                    *)
(***************************************************************************)
Digit(d) ==
    CASE d = 0 -> "0" [] d = 1 -> "1" [] d = 2 -> "2" [] d = 3 -> "3"
      [] d = 4 -> "4" [] d = 5 -> "5" [] d = 6 -> "6" [] d = 7 -> "7"
      [] d = 8 -> "8" [] d = 9 -> "9"

RECURSIVE str(_)
str(n) == IF n < 10 THEN Digit(n) ELSE str(n \div 10) \o Digit(n % 10)


(***************************************************************************)
(* Footers.  A drawing operation on the canvas is a record; each of the    *)
(* two footer functions draws one centred string.                          *)
(***************************************************************************)
\* Variant: content pages numbered from the page after the cover.
draw_content_footer_minus_cover(page_num) ==
    <<[font |-> "Times-Roman", size |-> 10, x |-> A4[1] \div 2,
       y |-> inch \div 2, text |-> str(page_num - 1)]>>

draw_cover_footer ==
    <<[font |-> "Times-Roman", size |-> 11, x |-> A4[1] \div 2,
       y |-> (3 * inch) \div 4, text |-> "0"]>>

draw_content_footer(page_num) ==
    <<[font |-> "Times-Roman", size |-> 10, x |-> A4[1] \div 2,
       y |-> inch \div 2, text |-> str(page_num)]>>

\* generate's page callback, given canvas.getPageNumber(): what it draws.
on_page_layout(page_num) ==
    IF page_num = 1 THEN draw_cover_footer ELSE draw_content_footer(page_num)

(***************************************************************************)
(* Style catalogue (setup_custom_styles and the sample stylesheet values   *)
(* it inherits): leading, spaceBefore, spaceAfter, in layout units.        *)
(***************************************************************************)
StyleOf(l, sb, sa) == [leading |-> l * pt, spaceBefore |-> sb * pt, spaceAfter |-> sa * pt]

styles(name) ==
    CASE name = "CoverTitle"       -> StyleOf(22, 0, 12)
      [] name = "CoverSubtitle"    -> StyleOf(18, 0, 40)
      [] name = "SubmittedByLabel" -> StyleOf(16, 0, 6)
      [] name = "StudentInfo"      -> StyleOf(18, 0, 0)
      [] name = "InstituteInfo"    -> StyleOf(16, 0, 0)
      [] name = "CustomH1"         -> StyleOf(20, 20, 10)
      [] name = "BodyText"         -> StyleOf(14, 6, 0)
      [] name = "Title"            -> StyleOf(22, 0, 6)
      [] name = "TOCHeading1"      -> StyleOf(12, 5, 0)
      [] OTHER                     -> StyleOf(0, 0, 0)

(***************************************************************************)
(* Layout primitives (flowables).  size is <<width, height>> in points,    *)
(* as rationals; valid says whether an image's file can be decoded.        *)
(***************************************************************************)
NoSize == <<RatInt(0), RatInt(0)>>

\* n tenths of an inch, in points.
InchTenths(n) == Rat(72 * n, 10)

Spacer(h) == [kind |-> "Spacer", style |-> "", text |-> "", size |-> <<RatInt(1), h>>, valid |-> TRUE]

Paragraph(text, style) == [kind |-> "Paragraph", style |-> style, text |-> text, size |-> NoSize, valid |-> TRUE]

Image(path, size, valid) == [kind |-> "Image", style |-> "", text |-> path, size |-> size, valid |-> valid]

PageBreak == [kind |-> "PageBreak", style |-> "", text |-> "", size |-> NoSize, valid |-> TRUE]

TableOfContents == [kind |-> "TableOfContents", style |-> "TOCHeading1", text |-> "", size |-> NoSize, valid |-> TRUE]

(***************************************************************************)
(* fetch_logo: the outcome of requests.get is an input.  Returns the path  *)
(* of the temporary file, or None.                                         *)
(***************************************************************************)
None == "None"

LogoOutcomes == {"exception", "status404", "ok_image", "ok_not_image"}

fetch_logo(outcome) ==
    IF outcome \in {"ok_image", "ok_not_image"} THEN "logo.png" ELSE None

(***************************************************************************)
(* generate, lines 144-188: the cover and table-of-contents primitives.    *)
(***************************************************************************)
CoverFlow(metadata, outcome) ==
    LET logo_path == fetch_logo(outcome)
    IN  << Spacer(InchTenths(5)),
           Paragraph(metadata.title, "CoverTitle"),
           Paragraph(metadata.subtitle, "CoverSubtitle"),
           Spacer(InchTenths(8)),
           Paragraph("Submitted by", "SubmittedByLabel"),
           Paragraph(metadata.name, "StudentInfo"),
           Paragraph(metadata.roll_number, "StudentInfo"),
           Spacer(InchTenths(10)),
           IF logo_path # None
           THEN Image(logo_path, <<InchTenths(28), InchTenths(28)>>, outcome = "ok_image")
           ELSE Spacer(InchTenths(28)),
           Spacer(InchTenths(18)),
           Paragraph("IITM Online BS Degree Program,", "InstituteInfo"),
           Paragraph("Indian Institute of Technology, Madras, Chennai", "InstituteInfo"),
           Paragraph("Tamil Nadu, India, 600036", "InstituteInfo"),
           PageBreak >>

TOCFlow == << Paragraph("Table of Contents", "Title"), TableOfContents, PageBreak >>

(***************************************************************************)
(* generate, lines 190-218: the loop over content_items.  An uploaded file *)
(* is a record [name, w, h, valid, pos]; read() returns its bytes from pos *)
(* on, and an image cannot be decoded from a file that is not an image or  *)
(* from no bytes at all.  An uploaded file object is truthy, so the test   *)
(* `if item['file']` passes for every image item.  The result holds the    *)
(* primitives built, how many items were consumed, and the exception       *)
(* raised (or None).                                                       *)
(***************************************************************************)
\* Variant: an image of non-positive native size is left out of the story.
ItemFlowSkipNonPositive(item) ==
    IF item.type = "heading" THEN <<Paragraph(item.text, "CustomH1")>>
    ELSE IF item.type = "text" THEN <<Paragraph(item.text, "BodyText"), Spacer(InchTenths(1))>>
    ELSE IF item.type = "image" /\ item.file.w > 0 /\ item.file.h > 0
         THEN <<Image(item.file.name, Resize(item.file.w, item.file.h), TRUE), Spacer(InchTenths(2))>>
         ELSE <<>>

ItemFlow(item) ==
    IF item.type = "heading" THEN <<Paragraph(item.text, "CustomH1")>>
    ELSE IF item.type = "text" THEN <<Paragraph(item.text, "BodyText"), Spacer(InchTenths(1))>>
    ELSE IF item.type = "image"
         THEN <<Image(item.file.name, Resize(item.file.w, item.file.h), TRUE), Spacer(InchTenths(2))>>
         ELSE <<>>

Decodable(file) == file.valid /\ file.pos = 0

\* The exceptions' texts.
CannotIdentify(path) == "cannot identify image file " \o path

TooLarge(what) == "LayoutError: Flowable " \o what \o " too large on page"

RECURSIVE ContentFlow(_, _, _)
ContentFlow(content_items, i, story) ==
    IF i > Len(content_items)
    THEN [story |-> story, consumed |-> i - 1, raised |-> None]
    ELSE LET item == content_items[i]
         IN  IF item.type = "image" /\ ~Decodable(item.file)
             THEN [story |-> story, consumed |-> i, raised |-> CannotIdentify(item.file.name)]
             ELSE ContentFlow(content_items, i + 1, story \o ItemFlow(item))

(***************************************************************************)
(* doc.multiBuild(story, onFirstPage, onLaterPages): the document template *)
(* (A4, 72pt margins, one frame with 6pt padding) flowing the primitives   *)
(* into pages.  The number of lines a paragraph wraps to is a property of  *)
(* its text; the texts of the model wrap to one or two lines, and such a   *)
(* paragraph is never split across pages.                                  *)
(***************************************************************************)
FrameHeight == A4[2] - 2 * Margin - 2 * FramePadding

DefaultTitle == "Maximizing Revenue and Optimizing Inventory Management through Sales Analysis in E-commerce"

Lines(text) == IF text = DefaultTitle THEN 2 ELSE 1

Max(a, b) == IF a > b THEN a ELSE b

\* The height a primitive asks for when wrapped; entries are the table of
\* contents' entries of the previous pass (an empty table shows one
\* placeholder row).
Height(f, entries) ==
    CASE f.kind = "Paragraph"       -> Lines(f.text) * styles(f.style).leading
      [] f.kind = "TableOfContents" -> Max(1, Len(entries)) * styles(f.style).leading
      [] OTHER                      -> ToUnits(f.size[2])

SpaceBefore(f) == IF f.kind = "Paragraph" THEN styles(f.style).spaceBefore ELSE 0

SpaceAfter(f) == IF f.kind = "Paragraph" THEN styles(f.style).spaceAfter ELSE 0

\* SimpleDocTemplate is used as is: its afterFlowable hook does nothing, so
\* placing a primitive sends no 'TOCEntry' notification.
afterFlowable(f, page_num) == <<>>

\* A page of the canvas: its number, what the page callback drew on it, and
\* the primitives placed on it (by their position in the story).
NewPage(page_num) == [num |-> page_num, draws |-> on_page_layout(page_num), placed |-> <<>>]

BuildStart(lastEntries) ==
    [pages |-> <<>>, open |-> FALSE, y |-> 0, atTop |-> TRUE, prevSA |-> 0,
     postponed |-> FALSE, entries |-> <<>>, lastEntries |-> lastEntries, raised |-> None]

\* Begin a page if none is open (the page callback runs on page begin).
PageBegin(st) ==
    IF st.open THEN st
    ELSE [st EXCEPT !.pages = Append(@, NewPage(Len(@) + 1)), !.open = TRUE,
                    !.y = FrameHeight, !.atTop = TRUE, !.prevSA = 0]

\* One primitive handled on the open page: the state after it, and whether
\* the primitive was consumed (or is put back for the next page).
HandleFlowable(st, story, i) ==
    LET f  == story[i]
        n  == Len(st.pages)
        s  == IF st.atTop THEN 0 ELSE Max(SpaceBefore(f) - st.prevSA, 0)
        h  == Height(f, st.lastEntries)
        sa == SpaceAfter(f)
    IN  IF f.kind = "PageBreak"
        THEN [st |-> [st EXCEPT !.open = FALSE], consumed |-> TRUE]
        ELSE IF st.y - s > 0 /\ f.kind = "Image" /\ ~f.valid
        THEN [st |-> [st EXCEPT !.raised = CannotIdentify(f.text)], consumed |-> FALSE]
        ELSE IF st.y - s > 0 /\ st.y - s - h >= 0
        THEN [st |-> [st EXCEPT !.pages[n].placed = Append(@, i),
                                !.y = st.y - s - h - sa,
                                !.atTop = FALSE, !.prevSA = sa, !.postponed = FALSE,
                                !.entries = @ \o afterFlowable(f, n)],
              consumed |-> TRUE]
        ELSE IF st.postponed
        THEN [st |-> [st EXCEPT !.raised = TooLarge(f.text)], consumed |-> FALSE]
        ELSE [st |-> [st EXCEPT !.open = FALSE, !.postponed = TRUE], consumed |-> FALSE]

RECURSIVE Flow(_, _, _)
Flow(story, i, st) ==
    IF i > Len(story) \/ st.raised # None THEN st
    ELSE LET r == HandleFlowable(PageBegin(st), story, i)
         IN  Flow(story, IF r.consumed THEN i + 1 ELSE i, r.st)

\* One pass: build(story).
build(story, lastEntries) == Flow(story, 1, BuildStart(lastEntries))

\* multiBuild: passes are repeated until the table of contents received the
\* entries it was drawn with.  The result holds each pass's pages.
RECURSIVE MultiBuildFrom(_, _, _)
MultiBuildFrom(story, lastEntries, passes) ==
    LET r    == build(story, lastEntries)
        done == Append(passes, r.pages)
    IN  IF r.raised # None
        THEN [passes |-> done, entries |-> r.entries, raised |-> r.raised]
        ELSE IF r.entries = lastEntries
        THEN [passes |-> done, entries |-> r.entries, raised |-> None]
        ELSE IF Len(done) > maxPasses
        THEN [passes |-> done, entries |-> r.entries, raised |-> "IndexError"]
        ELSE MultiBuildFrom(story, r.entries, done)

multiBuild(story) == MultiBuildFrom(story, <<>>, <<>>)

(***************************************************************************)
(* PDFGenerator.generate(metadata, content_items), with the outcome of the *)
(* logo request as an input.  The result is what the call leaves behind:   *)
(* the story, the passes' pages, the table of contents' entries, how many  *)
(* content items the loop consumed (their files are read to the end), and  *)
(* the exception raised, or None when the call returns; logo records the   *)
(* input.                                                                  *)
(***************************************************************************)
generate(metadata, content_items, outcome) ==
    LET head == CoverFlow(metadata, outcome) \o TOCFlow
        c    == ContentFlow(content_items, 1, <<>>)
        b    == multiBuild(head \o c.story)
    IN  IF c.raised # None
        THEN [logo |-> outcome, story |-> head \o c.story, passes |-> <<>>, toc |-> <<>>,
              consumed |-> c.consumed, raised |-> c.raised]
        ELSE [logo |-> outcome, story |-> head \o c.story, passes |-> b.passes, toc |-> b.entries,
              consumed |-> c.consumed, raised |-> b.raised]

(***************************************************************************)
(* The Streamlit script.  Every interaction reruns the script once; an     *)
(* action is one run.  clicked is the widget that caused the run, messages *)
(* and download are what the run shows, and doc is what the run's          *)
(* PDFGenerator produced.                                                  *)
(*                                                                         *)
(* History variables, not program state: every block carries the number    *)
(* (id) of the 'Add to Report' click that made it, nextId counts those     *)
(* clicks, deleted holds the ids whose delete button was clicked, and gens *)
(* holds the outcomes of the last two generations made since the inputs    *)
(* last changed.                                                           *)
(***************************************************************************)
VARIABLES metadata, content_list, clicked, messages, download, doc, nextId, deleted, gens

vars == <<metadata, content_list, clicked, messages, download, doc, nextId, deleted, gens>>

NoDoc == [logo |-> None, story |-> <<>>, passes |-> <<>>, toc |-> <<>>, consumed |-> 0, raised |-> "not run"]

HeadingTexts == {"Intro", "Conclusion"}

ParagraphTexts == {"hello <b>world</b>"}

\* Files the uploader can hand over (type png/jpg/jpeg by name only).
UploadedFiles ==
    { [name |-> "half.png",  w |-> 400,  h |-> 400,  valid |-> TRUE,  pos |-> 0],
      [name |-> "wide.png",  w |-> 4000, h |-> 2000, valid |-> TRUE,  pos |-> 0],
      [name |-> "tall.png",  w |-> 300,  h |-> 900,  valid |-> TRUE,  pos |-> 0],
      [name |-> "zero.png",  w |-> 0,    h |-> 10,   valid |-> TRUE,  pos |-> 0],
      [name |-> "notes.png", w |-> 0,    h |-> 0,    valid |-> FALSE, pos |-> 0] }

Titles == {"T", DefaultTitle}

Init ==
    /\ metadata = [title |-> DefaultTitle,
                   subtitle |-> "A Final Report for the Secondary BDM Capstone Project",
                   name |-> "Anupratee Bharadwaj",
                   roll_number |-> "21f1001850"]
    /\ content_list = <<>>
    /\ clicked = None
    /\ messages = <<>>
    /\ download = <<>>
    /\ doc = NoDoc
    /\ nextId = 1
    /\ deleted = {}
    /\ gens = <<>>

Msg(level, text) == [level |-> level, text |-> text]

\* download is the sequence of download buttons the run shows (none or one).
\* A run in which nothing is generated shows none.
NothingGenerated == download' = <<>> /\ doc' = NoDoc

\* The sidebar: a new title is typed.
SetTitle(t) ==
    /\ clicked' = "title"
    /\ t # metadata.title
    /\ metadata' = [metadata EXCEPT !.title = t]
    /\ messages' = <<>>
    /\ gens' = <<>>
    /\ NothingGenerated
    /\ UNCHANGED <<content_list, nextId, deleted>>

\* "Add to Report" with block type Image and an uploaded file.
AddImage(file) ==
    /\ clicked' = "add"
    /\ nextId <= MaxAdds
    /\ content_list' = Append(content_list,
                              [id |-> nextId, type |-> "image", file |-> file, text |-> "Image"])
    /\ messages' = <<Msg("success", "Image added!")>>
    /\ nextId' = nextId + 1
    /\ gens' = <<>>
    /\ NothingGenerated
    /\ UNCHANGED <<metadata, deleted>>

\* "Add to Report" with block type Heading or Paragraph and a non-empty text.
AddText(block_type, content_input) ==
    /\ clicked' = "add"
    /\ nextId <= MaxAdds
    /\ content_input # ""
    /\ content_list' = Append(content_list,
                              [id |-> nextId,
                               type |-> IF block_type = "Heading" THEN "heading" ELSE "text",
                               text |-> content_input])
    /\ messages' = <<Msg("success", block_type \o " added!")>>
    /\ nextId' = nextId + 1
    /\ gens' = <<>>
    /\ NothingGenerated
    /\ UNCHANGED <<metadata, deleted>>

\* "Add to Report" with no file or an empty text.
AddNothing ==
    /\ clicked' = "add"
    /\ messages' = <<Msg("error", "Please provide content.")>>
    /\ NothingGenerated
    /\ UNCHANGED <<metadata, content_list, nextId, deleted, gens>>

\* Variant: the last element is removed, whatever i is.
popLast(list, i) == SubSeq(list, 1, Len(list) - 1)

\* list.pop(i), i counted from 1 here.
pop(list, i) == SubSeq(list, 1, i - 1) \o SubSeq(list, i + 1, Len(list))

\* The delete button of the i-th previewed block, then st.rerun().
DeleteBlock(i) ==
    /\ clicked' = "delete"
    /\ i \in 1..Len(content_list)
    /\ content_list' = pop(content_list, i)
    /\ deleted' = deleted \cup {content_list[i].id}
    /\ messages' = <<>>
    /\ gens' = <<>>
    /\ NothingGenerated
    /\ UNCHANGED <<metadata, nextId>>

(***************************************************************************)
(* The "Generate PDF Report" button.                                       *)
(***************************************************************************)
\* item['file'].seek(0) for every image item.
SeekAll(list) ==
    [k \in 1..Len(list) |->
        IF list[k].type = "image" THEN [list[k] EXCEPT !.file.pos = 0] ELSE list[k]]

\* The files of the first n items have been read to their end.
ReadUpTo(list, n) ==
    [k \in 1..Len(list) |->
        IF list[k].type = "image" /\ k <= n THEN [list[k] EXCEPT !.file.pos = 1] ELSE list[k]]

\* The pages of the finished document: those of the last pass.
FinalPages(r) == IF r.passes = <<>> THEN <<>> ELSE r.passes[Len(r.passes)]

FooterTexts(page) == [k \in 1..Len(page.draws) |-> page.draws[k].text]

\* pdf_buffer.getvalue(), as far as the structure of the document goes: the
\* footer texts of each page, and the table of contents' entries.
pdf_data(r) ==
    [footers |-> [k \in 1..Len(FinalPages(r)) |-> FooterTexts(FinalPages(r)[k])],
     toc |-> r.toc]

\* What a generation came to: the document, or the failure.
Outcome(r) ==
    [raised |-> r.raised,
     pdf |-> IF r.raised = None THEN pdf_data(r) ELSE [footers |-> <<>>, toc |-> <<>>]]

\* The last two outcomes.
Remember(g, o) == IF Len(g) < 2 THEN Append(g, o) ELSE <<g[2], o>>

\* Variant: the download is offered whether or not generate raised.
GenerateOfferAlways(outcome) ==
    /\ clicked' = "generate"
    /\ content_list # <<>>
    /\ LET items == SeekAll(content_list)
           r     == generate(metadata, items, outcome)
       IN  /\ content_list' = ReadUpTo(items, r.consumed)
           /\ doc' = r
           /\ gens' = Remember(gens, Outcome(r))
           /\ messages' = IF r.raised = None
                          THEN <<Msg("success", "PDF Generated Successfully!")>>
                          ELSE <<Msg("error", "An error occurred: " \o r.raised)>>
           /\ download' = <<[data |-> pdf_data(r),
                             file_name |-> metadata.roll_number \o "_Report.pdf"]>>
    /\ UNCHANGED <<metadata, nextId, deleted>>

\* The branch taken with a non-empty list: lines 308-339.
Generate(outcome) ==
    /\ clicked' = "generate"
    /\ content_list # <<>>
    /\ LET items == SeekAll(content_list)
           r     == generate(metadata, items, outcome)
       IN  /\ content_list' = ReadUpTo(items, r.consumed)
           /\ doc' = r
           /\ gens' = Remember(gens, Outcome(r))
           /\ IF r.raised = None
              THEN /\ messages' = <<Msg("success", "PDF Generated Successfully!")>>
                   /\ download' = <<[data |-> pdf_data(r),
                                     file_name |-> metadata.roll_number \o "_Report.pdf"]>>
              ELSE /\ messages' = <<Msg("error", "An error occurred: " \o r.raised)>>
                   /\ download' = <<>>
    /\ UNCHANGED <<metadata, nextId, deleted>>

\* Variant: no test for an empty list; generate is called on it.
GenerateEmptyAnyway(outcome) ==
    /\ clicked' = "generate"
    /\ content_list = <<>>
    /\ LET r == generate(metadata, content_list, outcome)
       IN  /\ doc' = r
           /\ messages' = IF r.raised = None
                          THEN <<Msg("success", "PDF Generated Successfully!")>>
                          ELSE <<Msg("error", "An error occurred: " \o r.raised)>>
           /\ download' = IF r.raised = None
                          THEN <<[data |-> pdf_data(r),
                                  file_name |-> metadata.roll_number \o "_Report.pdf"]>>
                          ELSE <<>>
    /\ UNCHANGED <<metadata, content_list, nextId, deleted, gens>>

\* The branch taken with an empty list: lines 305-306.  The logo is not
\* requested; outcome is the request's outcome had it been made.
GenerateEmpty(outcome) ==
    /\ clicked' = "generate"
    /\ content_list = <<>>
    /\ messages' = <<Msg("warning", "Please add some content before generating the report.")>>
    /\ NothingGenerated
    /\ UNCHANGED <<metadata, content_list, nextId, deleted, gens>>

Next ==
    \/ \E t \in Titles : SetTitle(t)
    \/ \E file \in UploadedFiles : AddImage(file)
    \/ \E text \in HeadingTexts : AddText("Heading", text)
    \/ \E text \in ParagraphTexts : AddText("Paragraph", text)
    \/ AddNothing
    \/ \E i \in 1..MaxAdds : DeleteBlock(i)
    \/ \E outcome \in LogoOutcomes : Generate(outcome)
    \/ \E outcome \in LogoOutcomes : GenerateEmpty(outcome)

Spec == Init /\ [][Next]_vars

(***************************************************************************)
(* The resize logic on its own: the session holds one image block, whose   *)
(* native size is drawn from a range around the available width, and the   *)
(* report is generated from it.                                            *)
(***************************************************************************)
FitWidths == {-1, 0, 1, 4000} \cup (445..(445 + WidthSpan))

FitHeights == {-1, 0, 2000} \cup (1..MaxH)

InitFit ==
    /\ metadata = [title |-> DefaultTitle,
                   subtitle |-> "A Final Report for the Secondary BDM Capstone Project",
                   name |-> "Anupratee Bharadwaj",
                   roll_number |-> "21f1001850"]
    /\ \E w \in FitWidths, h \in FitHeights :
          content_list = <<[id |-> 1, type |-> "image",
                            file |-> [name |-> "content_img.png", w |-> w, h |-> h,
                                      valid |-> TRUE, pos |-> 0],
                            text |-> "Image"]>>
    /\ clicked = "add"
    /\ messages = <<Msg("success", "Image added!")>>
    /\ download = <<>>
    /\ doc = NoDoc
    /\ nextId = 2
    /\ deleted = {}
    /\ gens = <<>>

NextFit == \E outcome \in LogoOutcomes : Generate(outcome)

SpecFit == InitFit /\ [][NextFit]_vars

(***************************************************************************)
(* Properties.                                                             *)
(***************************************************************************)
\* The run generated something (generate was called).
Generated == doc.raised # "not run"

\* Where the content part of the story starts, and where the primitives of
\* the k-th block start in it.
ContentStart == Len(CoverFlow(metadata, None)) + Len(TOCFlow)

GroupLen(item) == IF item.type = "heading" THEN 1 ELSE 2

RECURSIVE GroupsBefore(_, _)
GroupsBefore(list, k) == IF k <= 1 THEN 0 ELSE GroupsBefore(list, k - 1) + GroupLen(list[k - 1])

StoryIndex(list, k) == ContentStart + GroupsBefore(list, k) + 1

\* The loop of generate got past the k-th block.
Built(k) == Generated /\ (doc.consumed > k \/ (doc.consumed = k /\ Len(doc.story) >= StoryIndex(content_list, k)))

\* The available column width in points, 75600/127 - 144.
AvailPt == <<57312, 127>>

\* C4: an image block of positive native size w x h is rendered w x h when
\* w <= a, and a x (h * a / w) when w > a, a being the available width; so the
\* rendered width never exceeds a and rendered width * h = rendered height * w.
C4_ImageFit ==
    \A k \in 1..Len(content_list) :
        LET item == content_list[k]
        IN  (item.type = "image" /\ Built(k) /\ item.file.w > 0 /\ item.file.h > 0) =>
            LET f  == doc.story[StoryIndex(content_list, k)]
                w  == item.file.w
                h  == item.file.h
            IN  /\ f.kind = "Image"
                /\ w * AvailPt[2] <= AvailPt[1] => f.size = <<<<w, 1>>, <<h, 1>>>>
                /\ w * AvailPt[2] > AvailPt[1] =>
                      /\ f.size[1] = AvailPt
                      /\ RatMul(f.size[2], <<w, 1>>) = RatMul(<<h, 1>>, AvailPt)
                /\ ~RatGT(f.size[1], AvailPt)
                /\ RatMul(f.size[1], <<h, 1>>) = RatMul(f.size[2], <<w, 1>>)

\* C4 witness: the 4000 x 2000 image was scaled to the available width.
C4_Witness ==
    /\ Generated
    /\ Len(content_list) = 1
    /\ content_list[1].type = "image"
    /\ content_list[1].file.w = 4000 /\ content_list[1].file.h = 2000
    /\ doc.story[StoryIndex(content_list, 1)].size = <<AvailPt, <<28656, 127>>>>

NonPositive(item) == item.type = "image" /\ (item.file.w <= 0 \/ item.file.h <= 0)

IsOn(page, i) == \E j \in 1..Len(page.placed) : page.placed[j] = i

PageOf(r, i) ==
    IF \E n \in 1..Len(FinalPages(r)) : IsOn(FinalPages(r)[n], i)
    THEN CHOOSE n \in 1..Len(FinalPages(r)) : IsOn(FinalPages(r)[n], i)
    ELSE 0

\* The positions in the block list of its headings, in order.
RECURSIVE HeadingsOf(_, _)
HeadingsOf(list, k) ==
    IF k > Len(list) THEN <<>>
    ELSE (IF list[k].type = "heading" THEN <<k>> ELSE <<>>) \o HeadingsOf(list, k + 1)

\* C1 as claimed: once the build has finished, the table of contents holds
\* exactly one entry per heading block, with the heading's text and the page
\* it was placed on, in the order of the headings in the block list.
C1_TocListsHeadings ==
    (Generated /\ doc.raised = None) =>
        LET hs == HeadingsOf(content_list, 1)
        IN  /\ Len(doc.toc) = Len(hs)
            /\ \A n \in 1..Len(hs) :
                  /\ n <= Len(doc.toc)
                  /\ doc.toc[n].text = content_list[hs[n]].text
                  /\ doc.toc[n].pageNum = PageOf(doc, StoryIndex(content_list, hs[n]))

\* The decimal text of a number below 100, digit by digit.
DecimalText(n) == IF n < 10 THEN Digit(n) ELSE Digit(n \div 10) \o Digit(n % 10)

TocPage(r) == PageOf(r, ContentStart - 1)

\* C3 as claimed: the page right after the table-of-contents page carries
\* footer "1", the next one "2", and so on.
C3_ContentPagesFromOne ==
    (Generated /\ doc.raised = None) =>
        \A n \in 1..Len(FinalPages(doc)) :
            n > TocPage(doc) =>
                FinalPages(doc)[n].draws[1].text = DecimalText(n - TocPage(doc))

\* What the claim expects of a block: the kinds, styles and texts of its
\* primitives.
Shape(f) == <<f.kind, f.style, f.text>>

ExpectedGroup(item) ==
    CASE item.type = "heading" -> << <<"Paragraph", "CustomH1", item.text>> >>
      [] item.type = "text"    -> << <<"Paragraph", "BodyText", item.text>>, <<"Spacer", "", "">> >>
      [] item.type = "image"   -> << <<"Image", "", item.file.name>>, <<"Spacer", "", "">> >>

RECURSIVE ExpectedContent(_, _)
ExpectedContent(list, k) ==
    IF k > Len(list) THEN <<>> ELSE ExpectedGroup(list[k]) \o ExpectedContent(list, k + 1)

ContentPart(story) ==
    [j \in 1..(Len(story) - ContentStart) |-> Shape(story[ContentStart + j])]

\* C5: the list holds exactly the blocks added and not deleted, in the order
\* they were added, and the content part of a story built from it is one
\* primitive group per block, in that order.
C5_OrderPreserved ==
    /\ \A j, k \in 1..Len(content_list) : j < k => content_list[j].id < content_list[k].id
    /\ {content_list[k].id : k \in 1..Len(content_list)} = (1..(nextId - 1)) \ deleted
    /\ (Generated /\ doc.consumed = Len(content_list) /\ Built(Len(content_list))) =>
          ContentPart(doc.story) = ExpectedContent(content_list, 1)

\* C5 witness: of two blocks added the first was deleted, and the report was
\* generated from the second.
C5_Witness ==
    /\ Generated /\ doc.raised = None
    /\ deleted = {1}
    /\ Len(content_list) = 1
    /\ content_list[1].id = 2
    /\ Len(doc.story) > ContentStart

HasMessage(level) == \E k \in 1..Len(messages) : messages[k].level = level

\* C6 as claimed: generation requested with an empty block list succeeds, a
\* document is produced and offered, and nothing is refused.
C6_EmptyListGenerates ==
    (clicked = "generate" /\ content_list = <<>>) =>
        /\ Generated /\ doc.raised = None
        /\ download # <<>>
        /\ ~HasMessage("warning") /\ ~HasMessage("error")

\* C6 amended: the "Generate PDF Report" handler refuses an empty block list:
\* it shows one warning asking for content, does not call generate, and offers
\* no document.
C6_EmptyListRefused ==
    (clicked = "generate" /\ content_list = <<>>) =>
        /\ messages = <<Msg("warning", "Please add some content before generating the report.")>>
        /\ ~Generated
        /\ download = <<>>

\* C6 witness: the generate button was clicked on an empty list.
C6_Witness == clicked = "generate" /\ content_list = <<>> /\ HasMessage("warning")

\* Where the logo (or its fallback) sits in the story.
LogoIndex ==
    CHOOSE j \in 1..Len(CoverFlow(metadata, "ok_image")) :
        CoverFlow(metadata, "ok_image")[j].kind = "Image"

LogoFailed == doc.logo \in {"exception", "status404", "ok_not_image"}

\* C7 as claimed: whenever the logo cannot be obtained as a usable image, a
\* fallback primitive takes its place on the cover and the generation is not
\* failed by the logo.
C7_LogoFailureRecovered ==
    (Generated /\ LogoFailed /\ Len(doc.story) >= LogoIndex) =>
        /\ doc.story[LogoIndex].kind = "Spacer"
        /\ doc.raised # CannotIdentify("logo.png")

\* A structural failure: an image that cannot be decoded, or a primitive that
\* fits on no page.
Structural == Generated /\ doc.raised # None

\* C9: when generate raises, the run shows exactly one error, naming the
\* failure, and no download; a download is offered only when generate
\* returned normally.
C9_NoPartialDocument ==
    /\ Structural =>
          /\ download = <<>>
          /\ messages = <<Msg("error", "An error occurred: " \o doc.raised)>>
    /\ download # <<>> =>
          /\ Generated /\ doc.raised = None
          /\ download[1].data = pdf_data(doc)

\* C9 witness: an image too tall for a page made generate raise a layout
\* error, and the run shows the error and no download.
C9_Witness ==
    /\ Generated
    /\ doc.raised = TooLarge("tall.png")
    /\ HasMessage("error")
    /\ download = <<>>

\* C10 as claimed: two generations from the same metadata and block list give
\* structurally identical documents, whatever the logo requests came to.
C10_SameInputsSameDocument == Len(gens) = 2 => gens[1] = gens[2]

=============================================================================
